---- MODULE Spec2Model ----
(***************************************************************************)
(* State-machine model of src/app.py: the tornado dashboard's startup      *)
(* sequence (dataset fetch, table load and cleaning, county boundary       *)
(* flattening, initial figure) and its year-change callback.               *)
(*                                                                         *)
(* A CSV file is a header (set of column names) and a sequence of rows;    *)
(* a row maps each column name to the text of its cell ("" is a blank      *)
(* cell).  The download writes the body in blocks of bytes; a block can    *)
(* end at any byte of the body, and so can the stream.                     *)
(***************************************************************************)
EXTENDS Integers, Sequences, FiniteSets, TLC

VARIABLES
    pc,               \* position of the running process in app.py
    run,              \* ordinal of the running process (1 = first run)
    exit_code,        \* exit status of the process once it has ended, else -1
    csv_file,         \* the file at csv_path on local storage
    file0,            \* the file at csv_path before the first run
    county_file,      \* the file at county_geojson_file on local storage
    requests,         \* HTTP requests issued by the running process
    get_calls,        \* calls of session.get made by the running process
    response,         \* the response of session.get, and how far it was read
    df_tornado,       \* module global df_tornado
    f_scale_mapping,  \* module global f_scale_mapping (insertion ordered)
    all_boundaries,   \* module global all_boundaries
    combined_lats,    \* module global combined_lats
    combined_lons,    \* module global combined_lons
    year_dropdown,    \* value of the "year-dropdown" control
    fig               \* figure shown by the "graph" component

vars == <<pc, run, exit_code, csv_file, file0, county_file, requests, get_calls,
          response,
          df_tornado, f_scale_mapping, all_boundaries, combined_lats,
          combined_lons, year_dropdown, fig>>

disk == <<csv_file, file0, county_file>>
net == <<requests, get_calls, response>>
table == <<df_tornado>>
geo == <<all_boundaries, combined_lats, combined_lons>>
ui == <<year_dropdown, fig>>

-----------------------------------------------------------------------------
(* Bounds of the model *)

MaxRows == 2
MaxPieces == 3
MaxRuns == 2
MaxRedirects == 1

-----------------------------------------------------------------------------
(* Cell values of a data frame, and Python's None *)

Num(n) == [k |-> "num", n |-> n]
Str(s) == [k |-> "str", s |-> s]
NaN == [k |-> "nan"]
None == [k |-> "none"]

\* float(text) for the numeric literals that occur in the modelled files
NumberOf == ("35" :> 35) @@ ("36" :> 36) @@ ("-97" :> -97) @@ ("-98" :> -98)
            @@ ("3" :> 3) @@ ("-9" :> -9)
            @@ ("1" :> 1) @@ ("19" :> 19) @@ ("199" :> 199) @@ ("1999" :> 1999)
            @@ ("2" :> 2) @@ ("20" :> 20) @@ ("200" :> 200) @@ ("2000" :> 2000)

\* pd.to_numeric(cell, errors="coerce")
to_numeric(cell) ==
    IF cell.k = "num" THEN cell
    ELSE IF cell.k = "str" /\ cell.s \in DOMAIN NumberOf THEN Num(NumberOf[cell.s])
    ELSE NaN

\* number of positions of seq holding v
Count(seq, v) == Cardinality({i \in 1..Len(seq) : seq[i] = v})

-----------------------------------------------------------------------------
(* Files *)

\* cut = 0: the file ends at a line end; cut > 0: its last line (the last
\* row, or the header when there is no row) ends at cut point cut
NoFile == [exists |-> FALSE, columns |-> {}, rows |-> <<>>, cut |-> 0]
File(columns, rows) == [exists |-> TRUE, columns |-> columns, rows |-> rows, cut |-> 0]

BaseColumns == {"EVENT_TYPE", "BEGIN_LAT", "BEGIN_LON", "BEGIN_DATE_TIME"}
AllColumns == BaseColumns \cup {"TOR_F_SCALE"}

Row(type, lat, lon, date) ==
    ("EVENT_TYPE" :> type) @@ ("BEGIN_LAT" :> lat) @@ ("BEGIN_LON" :> lon)
    @@ ("BEGIN_DATE_TIME" :> date)

RowF(type, lat, lon, date, scale) ==
    Row(type, lat, lon, date) @@ ("TOR_F_SCALE" :> scale)

Dates == {"1999-05-03 16:30:00", "2000-04-23 18:05:00", "bad"}
GoodCoords == {<<"35", "-97">>, <<"36", "-98">>}
BadCoords == {<<"", "-97">>, <<"35", "">>, <<"abc", "-97">>}
Scales == {"F0", "F2", "", "EF1"}

\* rows of a source file that has no TOR_F_SCALE column
RowsNoScale ==
    {Row("Tornado", c[1], c[2], d) : c \in GoodCoords, d \in Dates}
    \cup {Row("Tornado", c[1], c[2], "1999-05-03 16:30:00") : c \in BadCoords}
    \cup {Row("Hail", "35", "-97", "1999-05-03 16:30:00")}

\* rows of a source file that has a TOR_F_SCALE column
RowsScale ==
    {RowF("Tornado", c[1], c[2], d, s) : c \in GoodCoords, d \in Dates, s \in Scales}
    \cup {RowF("Tornado", c[1], c[2], "1999-05-03 16:30:00", s) : c \in BadCoords, s \in Scales}
    \cup {RowF("Hail", "35", "-97", "1999-05-03 16:30:00", "")}

SeqsUpTo(S, n) == UNION {[1..m -> S] : m \in 0..n}

\* a table of 5 rows spanning the years 1999 and 2000
FiveRowFile ==
    File(AllColumns,
         <<RowF("Tornado", "35", "-97", "1999-05-03 16:30:00", "F0"),
           RowF("Tornado", "36", "-98", "1999-05-03 16:30:00", "F2"),
           RowF("Tornado", "36", "-98", "2000-04-23 18:05:00", "F0"),
           RowF("Tornado", "36", "-97", "1999-05-03 16:30:00", "F0"),
           RowF("Tornado", "35", "-98", "2000-04-23 18:05:00", "F1")>>)

\* the source tables a run can find at csv_path
SourceFiles ==
    {File(BaseColumns, rows) : rows \in SeqsUpTo(RowsNoScale, MaxRows)}
    \cup {File(AllColumns, rows) : rows \in SeqsUpTo(RowsScale, MaxRows)}
    \cup {FiveRowFile}

\* a file that is at csv_path before the first run
LocalFile ==
    File(AllColumns,
         <<RowF("Tornado", "35", "-97", "1999-05-03 16:30:00", "F0"),
           RowF("Tornado", "36", "-98", "1999-05-03 16:30:00", "F2")>>)

\* the bodies the file host can serve for gdrive_url
RemoteBodies ==
    {File(AllColumns,
          <<RowF("Tornado", "36", "-98", "2000-04-23 18:05:00", "F1"),
            RowF("Hail", "35", "-97", "1999-05-03 16:30:00", ""),
            RowF("Tornado", "35", "-97", "2000-04-23 18:05:00", "F0")>>),
     File(BaseColumns,
          <<Row("Tornado", "35", "-97", "2000-04-23 18:05:00"),
            Row("Tornado", "36", "-98", "1999-05-03 16:30:00")>>)}

Statuses == {200, 404, 500}

\* the columns in the order of the header line
ColumnOrder == <<"EVENT_TYPE", "BEGIN_LAT", "BEGIN_LON", "BEGIN_DATE_TIME", "TOR_F_SCALE">>
Fields(body) == SelectSeq(ColumnOrder, LAMBDA c : c \in body.columns)
FieldIndex(body, col) == CHOOSE k \in 1..Len(Fields(body)) : Fields(body)[k] = col

\* the leading bytes of the texts of the bodies: Prefixes[t][n + 1] is t[:n]
Prefixes ==
    ("EVENT_TYPE" :> <<"", "E", "EV", "EVE", "EVEN", "EVENT", "EVENT_", "EVENT_T", "EVENT_TY", "EVENT_TYP", "EVENT_TYPE">>)
    @@ ("BEGIN_LAT" :> <<"", "B", "BE", "BEG", "BEGI", "BEGIN", "BEGIN_", "BEGIN_L", "BEGIN_LA", "BEGIN_LAT">>)
    @@ ("BEGIN_LON" :> <<"", "B", "BE", "BEG", "BEGI", "BEGIN", "BEGIN_", "BEGIN_L", "BEGIN_LO", "BEGIN_LON">>)
    @@ ("BEGIN_DATE_TIME" :> <<"", "B", "BE", "BEG", "BEGI", "BEGIN", "BEGIN_", "BEGIN_D", "BEGIN_DA", "BEGIN_DAT", "BEGIN_DATE", "BEGIN_DATE_", "BEGIN_DATE_T", "BEGIN_DATE_TI", "BEGIN_DATE_TIM", "BEGIN_DATE_TIME">>)
    @@ ("TOR_F_SCALE" :> <<"", "T", "TO", "TOR", "TOR_", "TOR_F", "TOR_F_", "TOR_F_S", "TOR_F_SC", "TOR_F_SCA", "TOR_F_SCAL", "TOR_F_SCALE">>)
    @@ ("Tornado" :> <<"", "T", "To", "Tor", "Torn", "Torna", "Tornad", "Tornado">>)
    @@ ("Hail" :> <<"", "H", "Ha", "Hai", "Hail">>)
    @@ ("35" :> <<"", "3", "35">>)
    @@ ("36" :> <<"", "3", "36">>)
    @@ ("-97" :> <<"", "-", "-9", "-97">>)
    @@ ("-98" :> <<"", "-", "-9", "-98">>)
    @@ ("1999-05-03 16:30:00" :> <<"", "1", "19", "199", "1999", "1999-", "1999-0", "1999-05", "1999-05-", "1999-05-0", "1999-05-03", "1999-05-03 ", "1999-05-03 1", "1999-05-03 16", "1999-05-03 16:", "1999-05-03 16:3", "1999-05-03 16:30", "1999-05-03 16:30:", "1999-05-03 16:30:0", "1999-05-03 16:30:00">>)
    @@ ("2000-04-23 18:05:00" :> <<"", "2", "20", "200", "2000", "2000-", "2000-0", "2000-04", "2000-04-", "2000-04-2", "2000-04-23", "2000-04-23 ", "2000-04-23 1", "2000-04-23 18", "2000-04-23 18:", "2000-04-23 18:0", "2000-04-23 18:05", "2000-04-23 18:05:", "2000-04-23 18:05:0", "2000-04-23 18:05:00">>)
    @@ ("F0" :> <<"", "F", "F0">>)
    @@ ("F1" :> <<"", "F", "F1">>)
    @@ ("" :> <<"">>)

\* len(text.encode())
TextLen(text) == Len(Prefixes[text]) - 1

\* the header line "Unnamed: k" names pd.read_csv gives to a column whose
\* name is empty (k counts the columns from 0)
UnnamedColumn == <<"Unnamed: 0", "Unnamed: 1", "Unnamed: 2", "Unnamed: 3", "Unnamed: 4">>

\* lines of a body: the header line, then one line per row, each ended by "\n"
NumLines(body) == 1 + Len(body.rows)
\* the field texts of line n of a body (line 1 is the header)
LineTexts(body, n) ==
    IF n = 1 THEN Fields(body)
    ELSE [k \in 1..Len(Fields(body)) |-> body.rows[n - 1][Fields(body)[k]]]

\* bytes of the first k fields of a line, each with the separator after it
RECURSIVE SumLen(_, _)
SumLen(texts, k) ==
    IF k = 0 THEN 0 ELSE SumLen(texts, k - 1) + TextLen(texts[k]) + 1

\* bytes of a line without its "\n"
LineLen(texts) == SumLen(texts, Len(texts)) - 1
\* byte position at which field k of a line starts
FieldStart(texts, k) == SumLen(texts, k - 1)

\* positions in the byte stream of a body: <<whole lines, bytes of the next line>>
Offsets(body) ==
    UNION {{<<n, b>> : b \in 0..LineLen(LineTexts(body, n + 1))} :
              n \in 0..(NumLines(body) - 1)}
    \cup {<<NumLines(body), 0>>}
StartOffset == <<0, 0>>
Later(o1, o2) == o1[1] < o2[1] \/ (o1[1] = o2[1] /\ o1[2] < o2[2])

\* the text of field k in the first b bytes of a line
CutField(texts, k, b) ==
    IF b >= FieldStart(texts, k) + TextLen(texts[k]) THEN texts[k]
    ELSE IF b > FieldStart(texts, k)
         THEN Prefixes[texts[k]][b - FieldStart(texts, k) + 1]
         ELSE ""

\* the column names pd.read_csv takes from the first b bytes of the header
\* line: a header that ends with a separator has one more, unnamed, column
PartialHeader(body, b) ==
    {CutField(Fields(body), k, b) :
        k \in {i \in 1..Len(Fields(body)) : b > FieldStart(Fields(body), i)}}
    \cup {UnnamedColumn[k] :
        k \in {i \in 2..Len(Fields(body)) : b = FieldStart(Fields(body), i)}}

\* the first b bytes of a row line, as pd.read_csv reads them: the fields
\* that the bytes do not reach are blank
PartialRow(body, n, b) ==
    [col \in body.columns |-> CutField(LineTexts(body, n), FieldIndex(body, col), b)]

\* the file that holds the bytes of body up to offset o; cut is the number of
\* bytes of its last, unended line
Prefix(body, o) ==
    IF o[1] = 0
    THEN [exists |-> TRUE, columns |-> PartialHeader(body, o[2]), rows |-> <<>>,
          cut |-> o[2]]
    ELSE [exists |-> TRUE, columns |-> body.columns,
          rows |-> IF o[2] = 0 THEN SubSeq(body.rows, 1, o[1] - 1)
                   ELSE Append(SubSeq(body.rows, 1, o[1] - 1),
                               PartialRow(body, o[1] + 1, o[2])),
          cut |-> o[2]]

-----------------------------------------------------------------------------
(* County geometry: a line is a sequence of points <<lon, lat>> *)

Lines ==
    {<< <<-97, 35>>, <<-96, 35>> >>,
     << <<-96, 35>>, <<-96, 36>>, <<-97, 36>> >>,
     << <<-97, 36>>, <<-97, 35>> >>}

LineString(line) == [geom_type |-> "LineString", coords |-> line]
MultiLineString(lines) == [geom_type |-> "MultiLineString", geoms |-> lines]

\* what unary_union of the county boundaries can be: one line, or several
Unions ==
    {LineString(l) : l \in Lines}
    \cup {MultiLineString(ls) : ls \in UNION {[1..n -> Lines] : n \in 2..MaxPieces}}

SampleUnion == MultiLineString(<< << <<-97, 35>>, <<-96, 35>> >>,
                                  << <<-97, 36>>, <<-97, 35>> >> >>)

NoCountyFile == [exists |-> FALSE]
CountyFile(union) == [exists |-> TRUE, union |-> union]

NoGeometry == [geom_type |-> "unset"]

NoTable == [columns |-> {}, rows |-> <<>>]
NoFigure == [title |-> "", data |-> <<>>]
NoResponse == [status_code |-> 0, body |-> NoFile, offset |-> StartOffset]

-----------------------------------------------------------------------------
(* Table loader and cleaner *)

\* pandas infers a numeric dtype for a column whose non-blank cells are all numbers
ColumnIsNumeric(file, c) ==
    \A i \in 1..Len(file.rows) : file.rows[i][c] \in DOMAIN NumberOf \cup {""}

ParseCell(file, c, text) ==
    IF text = "" THEN NaN
    ELSE IF ColumnIsNumeric(file, c) THEN Num(NumberOf[text])
    ELSE Str(text)

\* pd.read_csv(csv_path, low_memory=False)
read_csv(file) ==
    [columns |-> file.columns,
     rows |-> [i \in 1..Len(file.rows) |->
                  [c \in file.columns |-> ParseCell(file, c, file.rows[i][c])]]]

\* df[df["EVENT_TYPE"] == "Tornado"]
FilterTornado(df) ==
    [df EXCEPT !.rows = SelectSeq(@, LAMBDA r : r["EVENT_TYPE"] = Str("Tornado"))]

\* df.dropna(subset=["BEGIN_LAT", "BEGIN_LON"])
dropna(df) ==
    [df EXCEPT !.rows = SelectSeq(@, LAMBDA r : r["BEGIN_LAT"] # NaN /\ r["BEGIN_LON"] # NaN)]

\* df[col] = pd.to_numeric(df[col], errors="coerce")
CoerceColumn(df, col) ==
    [df EXCEPT !.rows = [i \in 1..Len(df.rows) |->
                            [df.rows[i] EXCEPT ![col] = to_numeric(df.rows[i][col])]]]

\* the year of the complete timestamp texts
YearOfText == ("1999-05-03 16:30:00" :> 1999) @@ ("2000-04-23 18:05:00" :> 2000)

\* the texts that hold the year of timestamp d and stop before its end
PartialTimestamps(d) == {Prefixes[d][n + 1] : n \in 4..(TextLen(d) - 1)}

\* how pd.to_datetime treats a text that stops inside a timestamp depends on
\* the installed pandas: "strict" holds every text to the format of a whole
\* timestamp, "lenient" reads the date from the part that is there
DateParsers == {"strict", "lenient"}

\* pd.to_datetime(cell, errors="coerce").year; a number is a count of
\* nanoseconds since 1970-01-01
to_datetime_year(cell, parser) ==
    IF cell.k = "num" THEN Num(1970)
    ELSE IF cell.k = "str" /\ cell.s \in DOMAIN YearOfText THEN Num(YearOfText[cell.s])
    ELSE IF cell.k = "str" /\ parser = "lenient"
            /\ \E d \in DOMAIN YearOfText : cell.s \in PartialTimestamps(d)
         THEN Num(YearOfText[CHOOSE d \in DOMAIN YearOfText : cell.s \in PartialTimestamps(d)])
    ELSE NaN

\* df["YEAR"] = pd.to_datetime(df["BEGIN_DATE_TIME"], errors='coerce').dt.year
AddYear(df, parser) ==
    [columns |-> df.columns \cup {"YEAR"},
     rows |-> [i \in 1..Len(df.rows) |->
                  ("YEAR" :> to_datetime_year(df.rows[i]["BEGIN_DATE_TIME"], parser))
                  @@ df.rows[i]]]

\* if "TOR_F_SCALE" not in df.columns: df["TOR_F_SCALE"] = "F0"
DefaultScale(df) ==
    IF "TOR_F_SCALE" \notin df.columns
    THEN [columns |-> df.columns \cup {"TOR_F_SCALE"},
          rows |-> [i \in 1..Len(df.rows) |-> ("TOR_F_SCALE" :> Str("F0")) @@ df.rows[i]]]
    ELSE df

\* the cleaning pipeline, in the order of the statements
CleanTable(df, parser) ==
    DefaultScale(AddYear(CoerceColumn(CoerceColumn(dropna(FilterTornado(df)),
                                                   "BEGIN_LAT"), "BEGIN_LON"),
                         parser))

-----------------------------------------------------------------------------
(* Severity styles *)

FScaleMapping ==
    << [code |-> "F0", size |-> 6, color |-> "lightgreen"],
       [code |-> "F1", size |-> 8, color |-> "green"],
       [code |-> "F2", size |-> 10, color |-> "yellowgreen"],
       [code |-> "F3", size |-> 12, color |-> "orange"],
       [code |-> "F4", size |-> 14, color |-> "orangered"],
       [code |-> "F5", size |-> 16, color |-> "red"] >>

-----------------------------------------------------------------------------
(* Boundary flattener *)

\* [pt[1] for pt in coords], [pt[0] for pt in coords]
Lats(coords) == [i \in 1..Len(coords) |-> Num(coords[i][2])]
Lons(coords) == [i \in 1..Len(coords) |-> Num(coords[i][1])]

RECURSIVE JoinLats(_)
\* variant that puts None between the pieces only
JoinLats(geoms) ==
    IF geoms = <<>> THEN <<>>
    ELSE IF Len(geoms) = 1 THEN Lats(Head(geoms))
    ELSE Lats(Head(geoms)) \o <<None>> \o JoinLats(Tail(geoms))

RECURSIVE ExtendLats(_)
\* for line in geoms: combined_lats.extend([pt[1] for pt in coords] + [None])
ExtendLats(geoms) ==
    IF geoms = <<>> THEN <<>>
    ELSE Lats(Head(geoms)) \o <<None>> \o ExtendLats(Tail(geoms))

RECURSIVE ExtendLons(_)
\* for line in geoms: combined_lons.extend([pt[0] for pt in coords] + [None])
ExtendLons(geoms) ==
    IF geoms = <<>> THEN <<>>
    ELSE Lons(Head(geoms)) \o <<None>> \o ExtendLons(Tail(geoms))

\* combined_lats, combined_lons of the union
FlattenUnion(union) ==
    IF "geoms" \in DOMAIN union
    THEN [lats |-> ExtendLats(union.geoms), lons |-> ExtendLons(union.geoms)]
    ELSE IF union.geom_type = "LineString"
    THEN [lats |-> Lats(union.coords), lons |-> Lons(union.coords)]
    ELSE [lats |-> <<>>, lons |-> <<>>]

-----------------------------------------------------------------------------
(* Figure builder *)

DefaultYear == 1980
Years == {DefaultYear, 1999, 2000}

BoundaryTrace ==
    [name |-> "County Boundaries", mode |-> "lines",
     lat |-> combined_lats, lon |-> combined_lons,
     line |-> [width |-> 2, color |-> "black"]]

Column(rows, col) == [i \in 1..Len(rows) |-> rows[i][col]]

MarkerTraceSwapped(subset, entry) ==
    [name |-> "Tornado " \o entry.code, mode |-> "markers",
     lat |-> Column(subset, "BEGIN_LON"), lon |-> Column(subset, "BEGIN_LAT"),
     marker |-> [size |-> entry.size, color |-> entry.color],
     text |-> Column(subset, "BEGIN_DATE_TIME"), hoverinfo |-> "text+name"]

\* go.Scattergeo(lat=subset["BEGIN_LAT"], lon=subset["BEGIN_LON"], mode="markers", ...)
MarkerTrace(subset, entry) ==
    [name |-> "Tornado " \o entry.code, mode |-> "markers",
     lat |-> Column(subset, "BEGIN_LAT"), lon |-> Column(subset, "BEGIN_LON"),
     marker |-> [size |-> entry.size, color |-> entry.color],
     text |-> Column(subset, "BEGIN_DATE_TIME"), hoverinfo |-> "text+name"]

\* df_year[df_year["TOR_F_SCALE"] == f_scale]
ScaleSubset(df_year, f_scale) ==
    SelectSeq(df_year, LAMBDA r : r["TOR_F_SCALE"] = Str(f_scale))

RECURSIVE MarkerTracesAll(_, _)
\* variant that adds a layer for every severity code, empty or not
MarkerTracesAll(df_year, mapping) ==
    IF mapping = <<>> THEN <<>>
    ELSE <<MarkerTrace(ScaleSubset(df_year, Head(mapping).code), Head(mapping))>>
         \o MarkerTracesAll(df_year, Tail(mapping))

RECURSIVE MarkerTraces(_, _)
\* for f_scale, props in f_scale_mapping.items(): add a trace if the subset is not empty
MarkerTraces(df_year, mapping) ==
    IF mapping = <<>> THEN <<>>
    ELSE (IF ScaleSubset(df_year, Head(mapping).code) # <<>>
          THEN <<MarkerTrace(ScaleSubset(df_year, Head(mapping).code), Head(mapping))>>
          ELSE <<>>)
         \o MarkerTraces(df_year, Tail(mapping))

\* variant that keeps the rows of every year
YearSubsetAll(selected_year) == df_tornado.rows

\* df_tornado[df_tornado["YEAR"] == selected_year]
YearSubset(selected_year) ==
    SelectSeq(df_tornado.rows, LAMBDA r : r["YEAR"] = Num(selected_year))

create_figure(selected_year) ==
    [title |-> "Tornado Events - " \o ToString(selected_year),
     data |-> <<BoundaryTrace>> \o MarkerTraces(YearSubset(selected_year), f_scale_mapping)]

-----------------------------------------------------------------------------
(* The process: module-level statements of app.py, in order *)

Unloaded ==
    /\ df_tornado = NoTable
    /\ f_scale_mapping = <<>>
    /\ all_boundaries = NoGeometry
    /\ combined_lats = <<>>
    /\ combined_lons = <<>>
    /\ fig = NoFigure

ProcessStart ==
    /\ pc = "guard"
    /\ exit_code = -1
    /\ requests = 0
    /\ get_calls = 0
    /\ response = NoResponse
    /\ year_dropdown = DefaultYear
    /\ Unloaded

\* a first run on a machine with or without the dataset and the county file
Init ==
    /\ run = 1
    /\ csv_file \in {NoFile, LocalFile}
    /\ file0 = csv_file
    /\ county_file \in {NoCountyFile, CountyFile(SampleUnion),
                        CountyFile(LineString(<< <<-97, 35>>, <<-96, 35>> >>))}
    /\ ProcessStart

\* a run on any source table
InitData ==
    /\ run = 1
    /\ csv_file \in SourceFiles
    /\ file0 = csv_file
    /\ county_file = CountyFile(SampleUnion)
    /\ ProcessStart

\* a run on any county geometry
InitGeom ==
    /\ run = 1
    /\ csv_file = LocalFile
    /\ file0 = csv_file
    /\ county_file \in {CountyFile(u) : u \in Unions}
    /\ ProcessStart

\* variant that downloads whether or not the file exists
GuardAlways ==
    /\ pc = "guard"
    /\ pc' = "get"
    /\ UNCHANGED <<run, exit_code, disk, net, table, f_scale_mapping, geo, ui>>

\* if not os.path.exists(csv_path): download_large_file_from_gdrive(csv_path)
Guard ==
    /\ pc = "guard"
    /\ pc' = IF ~csv_file.exists THEN "get" ELSE "read"
    /\ UNCHANGED <<run, exit_code, disk, net, table, f_scale_mapping, geo, ui>>

\* response = session.get(gdrive_url, stream=True): one call, which follows
\* the redirects of the host
SessionGet ==
    /\ pc = "get"
    /\ \E hops \in 0..MaxRedirects : requests' = requests + 1 + hops
    /\ get_calls' = get_calls + 1
    /\ \E status \in Statuses, body \in RemoteBodies :
           response' = [status_code |-> status, body |-> body, offset |-> StartOffset]
    /\ pc' = "status"
    /\ UNCHANGED <<run, exit_code, disk, table, f_scale_mapping, geo, ui>>

\* session.get raises (the host cannot be reached): the exception ends the process
SessionGetError ==
    /\ pc = "get"
    /\ \E hops \in 0..MaxRedirects : requests' = requests + 1 + hops
    /\ get_calls' = get_calls + 1
    /\ pc' = "crashed"
    /\ exit_code' = 1
    /\ UNCHANGED <<run, disk, response, table, f_scale_mapping, geo, ui>>

\* variant that asks again after a failed request
CheckStatusRetry ==
    /\ pc = "status"
    /\ IF response.status_code = 200
       THEN /\ csv_file' = File({}, <<>>)
            /\ pc' = "stream"
            /\ UNCHANGED exit_code
       ELSE /\ pc' = IF get_calls < 2 THEN "get" ELSE "exited"
            /\ exit_code' = IF get_calls < 2 THEN exit_code ELSE 1
            /\ UNCHANGED csv_file
    /\ UNCHANGED <<run, file0, county_file, net, table, f_scale_mapping, geo, ui>>

\* if response.status_code == 200: open(destination, "wb") ... else: exit(1)
CheckStatus ==
    /\ pc = "status"
    /\ IF response.status_code = 200
       THEN /\ csv_file' = File({}, <<>>)
            /\ pc' = "stream"
            /\ UNCHANGED exit_code
       ELSE /\ pc' = "exited"
            /\ exit_code' = 1
            /\ UNCHANGED csv_file
    /\ UNCHANGED <<run, file0, county_file, net, table, f_scale_mapping, geo, ui>>

\* for chunk in response.iter_content(...): f.write(chunk), for a block of
\* any size that the connection delivers
WriteChunk ==
    /\ pc = "stream"
    /\ \E o \in Offsets(response.body) :
           /\ Later(response.offset, o)
           /\ response' = [response EXCEPT !.offset = o]
           /\ csv_file' = Prefix(response.body, o)
    /\ UNCHANGED <<pc, run, exit_code, file0, county_file, requests, get_calls,
                   table, f_scale_mapping, geo, ui>>

\* iter_content ends, at the end of the body or where the connection was
\* closed: the with block closes the file and the process goes on
FinishDownload ==
    /\ pc = "stream"
    /\ pc' = "read"
    /\ UNCHANGED <<run, exit_code, disk, net, table, f_scale_mapping, geo, ui>>

\* iter_content raises, before or after any block: the with block closes the
\* file and the exception ends the process
StreamError ==
    /\ pc = "stream"
    /\ pc' = "crashed"
    /\ exit_code' = 1
    /\ UNCHANGED <<run, disk, net, table, f_scale_mapping, geo, ui>>

\* df_tornado = pd.read_csv(csv_path, low_memory=False); an empty file raises,
\* and so does df_tornado["EVENT_TYPE"] when the header has no such column
ReadCsv ==
    /\ pc = "read"
    /\ IF "EVENT_TYPE" \notin csv_file.columns
       THEN /\ pc' = "crashed"
            /\ exit_code' = 1
            /\ UNCHANGED df_tornado
       ELSE /\ df_tornado' = read_csv(csv_file)
            /\ pc' = "clean"
            /\ UNCHANGED exit_code
    /\ UNCHANGED <<run, disk, net, f_scale_mapping, geo, ui>>

\* ---- PROCESSING THE DATA ----
\* a column the statements index and the header lacks raises KeyError
Clean ==
    /\ pc = "clean"
    /\ IF BaseColumns \subseteq df_tornado.columns
       THEN /\ \E parser \in DateParsers :
                   df_tornado' = CleanTable(df_tornado, parser)
            /\ pc' = "mapping"
            /\ UNCHANGED exit_code
       ELSE /\ pc' = "crashed"
            /\ exit_code' = 1
            /\ UNCHANGED df_tornado
    /\ UNCHANGED <<run, disk, net, f_scale_mapping, geo, ui>>

\* f_scale_mapping = {...}
DefineMapping ==
    /\ pc = "mapping"
    /\ f_scale_mapping' = FScaleMapping
    /\ pc' = "county"
    /\ UNCHANGED <<run, exit_code, disk, net, table, geo, ui>>

\* load the county GeoJSON and take the union of the boundaries
LoadCounty ==
    /\ pc = "county"
    /\ IF ~county_file.exists
       THEN /\ pc' = "crashed"
            /\ exit_code' = 1
            /\ UNCHANGED all_boundaries
       ELSE /\ all_boundaries' = county_file.union
            /\ pc' = "flatten"
            /\ UNCHANGED exit_code
    /\ UNCHANGED <<run, disk, net, table, f_scale_mapping, combined_lats,
                   combined_lons, ui>>

\* ---- EXTRACT BOUNDARIES FOR MAP ----
Flatten ==
    /\ pc = "flatten"
    /\ combined_lats' = FlattenUnion(all_boundaries).lats
    /\ combined_lons' = FlattenUnion(all_boundaries).lons
    /\ pc' = "layout"
    /\ UNCHANGED <<run, exit_code, disk, net, table, f_scale_mapping,
                   all_boundaries, ui>>

\* app.layout = ... dcc.Graph(id="graph", figure=create_figure(1980))
Layout ==
    /\ pc = "layout"
    /\ fig' = create_figure(DefaultYear)
    /\ year_dropdown' = DefaultYear
    /\ pc' = "serve"
    /\ UNCHANGED <<run, exit_code, disk, net, table, f_scale_mapping, geo>>

\* variant that narrows the shared table to the selected year
update_figure_inplace(selected_year) ==
    /\ pc = "serve"
    /\ year_dropdown' = selected_year
    /\ fig' = create_figure(selected_year)
    /\ df_tornado' = [df_tornado EXCEPT !.rows = YearSubset(selected_year)]
    /\ UNCHANGED <<pc, run, exit_code, disk, net, f_scale_mapping, geo>>

\* the callback of the year dropdown
update_figure(selected_year) ==
    /\ pc = "serve"
    /\ year_dropdown' = selected_year
    /\ fig' = create_figure(selected_year)
    /\ UNCHANGED <<pc, run, exit_code, disk, net, table, f_scale_mapping, geo>>

\* the process has ended, or its host ends it, and app.py is started again
Restart ==
    /\ pc \in {"serve", "crashed", "exited"}
    /\ run < MaxRuns
    /\ run' = run + 1
    /\ pc' = "guard"
    /\ exit_code' = -1
    /\ requests' = 0
    /\ get_calls' = 0
    /\ response' = NoResponse
    /\ year_dropdown' = DefaultYear
    /\ df_tornado' = NoTable
    /\ f_scale_mapping' = <<>>
    /\ all_boundaries' = NoGeometry
    /\ combined_lats' = <<>>
    /\ combined_lons' = <<>>
    /\ fig' = NoFigure
    /\ UNCHANGED disk

\* a run that finds the dataset on local storage
NextData ==
    \/ Guard
    \/ ReadCsv
    \/ Clean
    \/ DefineMapping
    \/ LoadCounty
    \/ Flatten
    \/ Layout
    \/ \E y \in Years : update_figure(y)

Next ==
    \/ Guard
    \/ SessionGet
    \/ SessionGetError
    \/ CheckStatus
    \/ WriteChunk
    \/ FinishDownload
    \/ StreamError
    \/ ReadCsv
    \/ Clean
    \/ DefineMapping
    \/ LoadCounty
    \/ Flatten
    \/ Layout
    \/ \E y \in Years : update_figure(y)
    \/ Restart

Spec == Init /\ [][Next]_vars
SpecData == InitData /\ [][NextData]_vars
SpecGeom == InitGeom /\ [][NextData]_vars

-----------------------------------------------------------------------------
(* Properties *)

FCodes == {"F0", "F1", "F2", "F3", "F4", "F5"}
SeverityRank == ("F0" :> 0) @@ ("F1" :> 1) @@ ("F2" :> 2) @@ ("F3" :> 3)
                @@ ("F4" :> 4) @@ ("F5" :> 5)

\* the cleaning steps have run in this process
CleaningDone == "YEAR" \in df_tornado.columns
\* the boundary flattener has run in this process
FlattenDone == pc \in {"layout", "serve"}

\* rows of the cleaned table with the given year and severity code
RowsOf(year, code) ==
    {i \in 1..Len(df_tornado.rows) :
        /\ df_tornado.rows[i]["YEAR"] = Num(year)
        /\ df_tornado.rows[i]["TOR_F_SCALE"] = Str(code)}
\* rows of the cleaned table with the given year
RowsOfYear(year) ==
    {i \in 1..Len(df_tornado.rows) : df_tornado.rows[i]["YEAR"] = Num(year)}
\* severity codes F0..F5 that occur in the given year
CodesOf(year) == {c \in FCodes : RowsOf(year, c) # {}}
\* the p-th smallest element of a set of row positions
Nth(S, p) == CHOOSE i \in S : Cardinality({k \in S : k <= i}) = p
\* marker layers of the displayed figure
MarkerLayers == 2..Len(fig.data)
LayerNames == [j \in 1..Len(fig.data) |-> fig.data[j].name]

\* C1: after cleaning, every row of df_tornado has EVENT_TYPE "Tornado", a
\* numeric BEGIN_LAT and BEGIN_LON, and a TOR_F_SCALE among F0..F5.
C1_CleanedRowsValid ==
    CleaningDone =>
        \A i \in 1..Len(df_tornado.rows) :
            /\ df_tornado.rows[i]["EVENT_TYPE"] = Str("Tornado")
            /\ df_tornado.rows[i]["BEGIN_LAT"].k = "num"
            /\ df_tornado.rows[i]["BEGIN_LON"].k = "num"
            /\ df_tornado.rows[i]["TOR_F_SCALE"] \in {Str(c) : c \in FCodes}

\* rows of the source file that survive the category and coordinate filters
SurvivingRows ==
    SelectSeq(csv_file.rows,
              LAMBDA r : r["EVENT_TYPE"] = "Tornado" /\ r["BEGIN_LAT"] # ""
                         /\ r["BEGIN_LON"] # "")

\* C2: with no TOR_F_SCALE column in the source every cleaned row has F0; with
\* the column present the rows blank in it get F0 and the others keep their code.
C2_SeverityDefaulting ==
    CleaningDone =>
        /\ Len(df_tornado.rows) = Len(SurvivingRows)
        /\ \A j \in 1..Len(df_tornado.rows) :
              df_tornado.rows[j]["TOR_F_SCALE"] =
                  IF "TOR_F_SCALE" \notin csv_file.columns THEN Str("F0")
                  ELSE IF SurvivingRows[j]["TOR_F_SCALE"] = "" THEN Str("F0")
                  ELSE Str(SurvivingRows[j]["TOR_F_SCALE"])

\* line pieces of the union
NumPieces == IF "geoms" \in DOMAIN all_boundaries THEN Len(all_boundaries.geoms) ELSE 1

\* C3 (as stated): combined_lats and combined_lons each hold (pieces - 1) None
\* entries when the union has more than one piece, and none when it has one.
C3_SentinelsBetweenPieces ==
    FlattenDone =>
        /\ Count(combined_lats, None) = NumPieces - 1
        /\ Count(combined_lons, None) = NumPieces - 1

\* C3 (amended): combined_lats and combined_lons each hold one None entry per
\* line piece when the union is a multi-part geometry, and none when the union
\* is a single LineString.
C3_SentinelPerPiece ==
    FlattenDone =>
        /\ Count(combined_lats, None) =
              (IF "geoms" \in DOMAIN all_boundaries THEN NumPieces ELSE 0)
        /\ Count(combined_lons, None) =
              (IF "geoms" \in DOMAIN all_boundaries THEN NumPieces ELSE 0)
        /\ Len(combined_lats) = Len(combined_lons)

C3_Witness ==
    /\ pc = "serve"
    /\ "geoms" \in DOMAIN all_boundaries
    /\ NumPieces = 3
    /\ Count(combined_lats, None) = 3
    /\ Count(combined_lons, None) = 3

\* C4: the displayed figure has the boundary layer first, then exactly one
\* marker layer per severity code F0..F5 that has a row in the selected year,
\* in ascending severity order, and no other layer.
C4_LayerOrder ==
    pc = "serve" =>
        /\ Len(fig.data) = 1 + Cardinality(CodesOf(year_dropdown))
        /\ fig.data[1].name = "County Boundaries"
        /\ fig.data[1].mode = "lines"
        /\ \A j \in MarkerLayers :
              /\ fig.data[j].mode = "markers"
              /\ \E c \in CodesOf(year_dropdown) : fig.data[j].name = "Tornado " \o c
        /\ \A j, k \in MarkerLayers :
              j < k =>
                  \E c, d \in FCodes :
                      /\ fig.data[j].name = "Tornado " \o c
                      /\ fig.data[k].name = "Tornado " \o d
                      /\ SeverityRank[c] < SeverityRank[d]

C4_Witness ==
    /\ pc = "serve"
    /\ year_dropdown = 1999
    /\ CodesOf(1999) = {"F0", "F2"}
    /\ LayerNames = <<"County Boundaries", "Tornado F0", "Tornado F2">>

\* C5: for a selected year that no row of the cleaned table has, the displayed
\* figure has the boundary layer alone, and the process has not failed.
C5_EmptyYear ==
    (pc = "serve" /\ RowsOfYear(year_dropdown) = {}) =>
        /\ LayerNames = <<"County Boundaries">>
        /\ exit_code = -1

C5_Witness ==
    /\ pc = "serve"
    /\ year_dropdown = 2000
    /\ RowsOfYear(2000) = {}
    /\ RowsOfYear(1999) # {}
    /\ \E i \in 1..Len(df_tornado.rows) : df_tornado.rows[i]["YEAR"] = NaN
    /\ Len(fig.data) = 1

\* C6: a fetch step that finds a file at csv_path issues no request and leaves
\* the file as it is, in every run.
C6_FetchIdempotent ==
    [][(pc = "guard" /\ csv_file.exists) =>
           (requests' = requests /\ get_calls' = get_calls /\ csv_file' = csv_file
            /\ pc' # "get")]_vars

C6_Witness ==
    /\ run = 2
    /\ pc = "read"
    /\ requests = 0
    /\ ~file0.exists
    /\ csv_file \in RemoteBodies

\* C7 (as stated): once a GET for an absent file has returned a status other
\* than 200, the process has exited with a non-zero code after exactly one
\* request, no file is at csv_path, and the table, the boundaries and the
\* figure are not built.
C7_ExactlyOneRequest ==
    (response.status_code \notin {0, 200} /\ pc # "status") =>
        /\ pc = "exited"
        /\ exit_code # 0
        /\ exit_code # -1
        /\ requests = 1
        /\ ~csv_file.exists
        /\ Unloaded

\* C7 (amended): once a GET for an absent file has returned a status other than
\* 200, the process has exited with a non-zero code after exactly one call of
\* session.get (its request and the redirects it followed, no retry), no file
\* is at csv_path, and the table, the boundaries and the figure are not built.
C7_FailedDownloadExits ==
    (response.status_code \notin {0, 200} /\ pc # "status") =>
        /\ pc = "exited"
        /\ exit_code # 0
        /\ exit_code # -1
        /\ get_calls = 1
        /\ requests >= 1
        /\ ~csv_file.exists
        /\ Unloaded

C7_Witness ==
    /\ pc = "exited"
    /\ response.status_code = 404
    /\ get_calls = 1
    /\ requests = 2
    /\ ~csv_file.exists

\* C8: each marker layer of the displayed figure holds exactly the rows of the
\* cleaned table with the selected year and the layer's severity code, in table
\* order, with the table's latitude and longitude; each severity code F0..F5
\* of that year has exactly one layer.
C8_PlottedRows ==
    pc = "serve" =>
        /\ \A c \in CodesOf(year_dropdown) :
              Cardinality({j \in MarkerLayers : fig.data[j].name = "Tornado " \o c}) = 1
        /\ \A j \in MarkerLayers :
              \E c \in FCodes :
                  /\ fig.data[j].name = "Tornado " \o c
                  /\ Len(fig.data[j].lat) = Cardinality(RowsOf(year_dropdown, c))
                  /\ Len(fig.data[j].lon) = Cardinality(RowsOf(year_dropdown, c))
                  /\ \A p \in 1..Len(fig.data[j].lat) :
                        /\ fig.data[j].lat[p] =
                              df_tornado.rows[Nth(RowsOf(year_dropdown, c), p)]["BEGIN_LAT"]
                        /\ fig.data[j].lon[p] =
                              df_tornado.rows[Nth(RowsOf(year_dropdown, c), p)]["BEGIN_LON"]

C8_Witness ==
    /\ pc = "serve"
    /\ csv_file = FiveRowFile
    /\ year_dropdown = 1999
    /\ RowsOfYear(1999) = {1, 2, 4}
    /\ LayerNames = <<"County Boundaries", "Tornado F0", "Tornado F2">>
    /\ fig.data[2].lat = <<Num(35), Num(36)>>
    /\ fig.data[2].lon = <<Num(-97), Num(-97)>>
    /\ fig.data[3].lat = <<Num(36)>>
    /\ fig.data[3].lon = <<Num(-98)>>

\* C9: once startup has completed, a year-change event leaves df_tornado,
\* combined_lats, combined_lons and f_scale_mapping unchanged.
C9_SharedDataReadOnly ==
    [][(pc = "serve" /\ pc' = "serve") =>
           UNCHANGED <<df_tornado, combined_lats, combined_lons, f_scale_mapping>>]_vars

C9_Witness ==
    /\ pc = "serve"
    /\ year_dropdown = 2000
    /\ RowsOfYear(1999) # {}
    /\ combined_lats # <<>>
    /\ f_scale_mapping = FScaleMapping

\* C10: whenever the table loader has read the file at csv_path, the file is
\* one that was there before the first run or the complete body of a status-200
\* response.
C10_NoTruncatedLoad ==
    pc = "clean" =>
        \/ (file0.exists /\ csv_file = file0)
        \/ csv_file \in RemoteBodies

====
